---- MODULE Spec2Model ----
(***************************************************************************)
(* Radiosonde cross-section example: vertical_interpolate and              *)
(* radisonde_cross_section.                                                *)
(*                                                                         *)
(* Numbers.  The notebook computes with IEEE doubles.  Here every real is  *)
(* an exact rational [n, d] in lowest terms with d > 0, so floating-point  *)
(* rounding is not modelled.  The natural logarithm is tabulated in        *)
(* thousandths for the pressures 10, 20, ..., 1100 hPa; every pressure of  *)
(* the model is one of those.                                              *)
(***************************************************************************)
EXTENDS Integers, Sequences, FiniteSets, TLC

\* ------------------------------------------------------------------------
\* Bounds of the model
\* ------------------------------------------------------------------------
MaxObs == 3

MaxStns == 3

\* the longest path for which the call is repeated
MaxRepeatStns == 2

\* ------------------------------------------------------------------------
\* Rational arithmetic
\* ------------------------------------------------------------------------
Abs(a) == IF a < 0 THEN -a ELSE a

RECURSIVE GCD(_, _)
GCD(a, b) == IF b = 0 THEN a ELSE GCD(b, a % b)

Rat(n, d) ==
    LET s == IF d < 0 THEN -1 ELSE 1
        g == GCD(Abs(n), Abs(d))
    IN  [n |-> (s * n) \div g, d |-> (s * d) \div g]

Int2Rat(k) == [n |-> k, d |-> 1]

RatAdd(a, b) == Rat(a.n * b.d + b.n * a.d, a.d * b.d)

RatSub(a, b) == Rat(a.n * b.d - b.n * a.d, a.d * b.d)

RatMul(a, b) == Rat(a.n * b.n, a.d * b.d)

RatDiv(a, b) == Rat(a.n * b.d, a.d * b.n)

\* Comparison by whole parts first, then by the remainders, so that the
\* products stay small.
RatLeq(a, b) ==
    \/ a.n \div a.d < b.n \div b.d
    \/ /\ a.n \div a.d = b.n \div b.d
       /\ (a.n % a.d) * b.d <= (b.n % b.d) * a.d

RatLess(a, b) ==
    \/ a.n \div a.d < b.n \div b.d
    \/ /\ a.n \div a.d = b.n \div b.d
       /\ (a.n % a.d) * b.d < (b.n % b.d) * a.d

RatBetween(v, a, b) ==
    \/ RatLeq(a, v) /\ RatLeq(v, b)
    \/ RatLeq(b, v) /\ RatLeq(v, a)

\* ------------------------------------------------------------------------
\* Sequence helpers (numpy slicing and boolean-mask assignment)
\* ------------------------------------------------------------------------
Reverse(s) == [i \in 1..Len(s) |-> s[Len(s) + 1 - i]]

MaskAssign(arr, mask, v) == [i \in 1..Len(arr) |-> IF mask[i] THEN v ELSE arr[i]]

SeqsUpTo(S, n) == UNION {[1..k -> S] : k \in 0..n}

StrictlyDecreasing(s) == \A i \in 1..(Len(s) - 1) : s[i] > s[i + 1]

\* ------------------------------------------------------------------------
\* np.log, in thousandths, for p in 10, 20, ..., 1100
\* ------------------------------------------------------------------------
LnTable ==
    << 2303, 2996, 3401, 3689, 3912, 4094, 4248, 4382, 4500, 4605,
       4700, 4787, 4868, 4942, 5011, 5075, 5136, 5193, 5247, 5298,
       5347, 5394, 5438, 5481, 5521, 5561, 5598, 5635, 5670, 5704,
       5737, 5768, 5799, 5829, 5858, 5886, 5914, 5940, 5966, 5991,
       6016, 6040, 6064, 6087, 6109, 6131, 6153, 6174, 6194, 6215,
       6234, 6254, 6273, 6292, 6310, 6328, 6346, 6363, 6380, 6397,
       6413, 6430, 6446, 6461, 6477, 6492, 6507, 6522, 6537, 6551,
       6565, 6579, 6593, 6607, 6620, 6633, 6646, 6659, 6672, 6685,
       6697, 6709, 6721, 6733, 6745, 6757, 6768, 6780, 6791, 6802,
       6813, 6824, 6835, 6846, 6856, 6867, 6877, 6888, 6898, 6908,
       6918, 6928, 6937, 6947, 6957, 6966, 6975, 6985, 6994, 7003 >>

Ln(p) == LnTable[p \div 10]

\* mutant: the coordinate is used as it is, without the logarithm
np_log_identity(arr) == arr

np_log(arr) == [i \in 1..Len(arr) |-> Ln(arr[i])]

\* ------------------------------------------------------------------------
\* np.interp(x, xp, fp) with the default left = fp[0], right = fp[-1].
\* Indices j are numpy's 0-based indices; arr[j + 1] is the TLA+ element.
\* For at most four sample points numpy locates the interval by the linear
\* search below; for more it bisects, which returns the same index whenever
\* xp is increasing.
\* ------------------------------------------------------------------------
RECURSIVE linear_search(_, _, _)
linear_search(key, arr, i) ==
    IF i < Len(arr) /\ key >= arr[i + 1]
    THEN linear_search(key, arr, i + 1)
    ELSE i - 1

binary_search_with_guess(key, arr) ==
    IF key > arr[Len(arr)] THEN Len(arr)
    ELSE IF key < arr[1] THEN -1
    ELSE linear_search(key, arr, 1)

interp_point(xv, xp, fp) ==
    LET len == Len(xp)
        j   == binary_search_with_guess(xv, xp)
    IN  IF len = 1
        THEN fp[1]
        ELSE IF j = -1 THEN fp[1]
        ELSE IF j = len THEN fp[len]
        ELSE IF j = len - 1 THEN fp[j + 1]
        ELSE IF xp[j + 1] = xv THEN fp[j + 1]
        ELSE LET slope == RatDiv(RatSub(fp[j + 2], fp[j + 1]),
                                 Int2Rat(xp[j + 2] - xp[j + 1]))
             IN  RatAdd(RatMul(slope, Int2Rat(xv - xp[j + 1])), fp[j + 1])

np_interp(x, xp, fp) == [i \in 1..Len(x) |-> interp_point(x[i], xp, fp)]

\* ------------------------------------------------------------------------
\* vertical_interpolate, statement by statement
\* ------------------------------------------------------------------------
AsFloat(arr) == [i \in 1..Len(arr) |-> Int2Rat(arr[i])]

\* mutant: the variable is not reversed along with the coordinate
vi_interp_var_not_reversed(lnp_, lnp_intervals_, interp_var_) ==
    Reverse(np_interp(Reverse(lnp_intervals_), Reverse(lnp_), AsFloat(interp_var_)))

\* mutant: the result is left in increasing-coordinate order
vi_interp_not_restored(lnp_, lnp_intervals_, interp_var_) ==
    np_interp(Reverse(lnp_intervals_), Reverse(lnp_), Reverse(AsFloat(interp_var_)))

vi_interp(lnp_, lnp_intervals_, interp_var_) ==
    Reverse(np_interp(Reverse(lnp_intervals_), Reverse(lnp_), Reverse(AsFloat(interp_var_))))

\* mutant: the two boundary values are exchanged
vi_mask_swapped(interp_data_, vcoord_data_, interp_var_, interp_levels_) ==
    LET mask_low   == [i \in 1..Len(interp_levels_) |-> interp_levels_[i] > vcoord_data_[1]]
        mask_high  == [i \in 1..Len(interp_levels_) |->
                          interp_levels_[i] < vcoord_data_[Len(vcoord_data_)]]
        after_low  == MaskAssign(interp_data_, mask_low, Int2Rat(interp_var_[Len(interp_var_)]))
    IN  MaskAssign(after_low, mask_high, Int2Rat(interp_var_[1]))

vi_mask(interp_data_, vcoord_data_, interp_var_, interp_levels_) ==
    LET mask_low   == [i \in 1..Len(interp_levels_) |-> interp_levels_[i] > vcoord_data_[1]]
        mask_high  == [i \in 1..Len(interp_levels_) |->
                          interp_levels_[i] < vcoord_data_[Len(vcoord_data_)]]
        after_low  == MaskAssign(interp_data_, mask_low, Int2Rat(interp_var_[1]))
    IN  MaskAssign(after_low, mask_high, Int2Rat(interp_var_[Len(interp_var_)]))

\* The array that owns the memory of np.interp's result.  An array made by a
\* library call is named after the call, an argument of vertical_interpolate
\* after the parameter; a slice such as a[::-1] is a view of the array it is
\* taken from.
\* mutant: the result is written over the samples fp
np_interp_base_in_place(x_base, xp_base, fp_base) == fp_base

\* np.interp returns a new array
np_interp_base(x_base, xp_base, fp_base) == "np.interp"

\* the array that owns the memory of interp_data: the reversed view of the
\* result of np.interp on the reversed views of lnp_intervals, lnp, interp_var
interp_data_base == np_interp_base("lnp_intervals", "lnp", "interp_var")

\* an array after new has been written in place into the memory owned by
\* target_base: it shows the written values when it is a view of that memory
seen_after_write(arr, arr_base, target_base, new) ==
    IF arr_base = target_base THEN new ELSE arr

\* The whole call: np.interp raises ValueError on an empty sample array.
vertical_interpolate(vcoord_data_, interp_var_, interp_levels_) ==
    IF Len(vcoord_data_) = 0
    THEN [raised |-> "ValueError", value |-> << >>]
    ELSE [raised |-> "none",
          value  |-> vi_mask(vi_interp(np_log(vcoord_data_), np_log(interp_levels_),
                                       interp_var_),
                             vcoord_data_, interp_var_, interp_levels_)]

\* ------------------------------------------------------------------------
\* State
\* ------------------------------------------------------------------------
VARIABLES
    \* one call of vertical_interpolate
    vi_pc, vcoord_data, interp_var, interp_levels, lnp, lnp_intervals, interp_data,
    \* one call of radisonde_cross_section(stns, data, start, end, step)
    pc, stns, data, start, end, step,
    vertical_levels, plevs, nstns, lats, lons, elev, keys, tmp_grid, key_i, loc,
    dist, ground_elevation, grid, x, nx, pp, xx, pdist, ddist, grid_i,
    raised, cross_section,
    \* the caller: which call this is, how its arguments differ from the first
    \* call's, what the first call returned and the station columns it built
    call_no, variant, first_result, first_columns,
    \* calls of vertical_interpolate per station position and of griddata, this call
    vi_calls, griddata_calls,
    \* find_time_var: position, arguments (var.coordinates), locals, returned value
    ftv_pc, coordinates, time_basename, coord_names, coord_i, coord_name, ftv_result,
    \* contrast_correction: position, arguments, locals, returned value
    cc_pc, color, contrast, F, COLOR, cc_result

vi_vars == <<vi_pc, vcoord_data, interp_var, interp_levels, lnp, lnp_intervals, interp_data>>

cs_vars == <<pc, stns, data, start, end, step,
             vertical_levels, plevs, nstns, lats, lons, elev, keys, tmp_grid, key_i, loc,
             dist, ground_elevation, grid, x, nx, pp, xx, pdist, ddist, grid_i,
             raised, cross_section,
             call_no, variant, first_result, first_columns, vi_calls, griddata_calls>>

\* the caller's state and the call counts of the running call
call_vars == <<call_no, variant, first_result, first_columns>>

count_vars == <<vi_calls, griddata_calls>>

ftv_vars == <<ftv_pc, coordinates, time_basename, coord_names, coord_i, coord_name, ftv_result>>

cc_vars == <<cc_pc, color, contrast, F, COLOR, cc_result>>

\* the state of the functions of the gallery notebooks
gallery_vars == <<ftv_vars, cc_vars>>

vars == <<vi_vars, cs_vars, gallery_vars>>

None == "None"

\* ------------------------------------------------------------------------
\* Inputs of vertical_interpolate
\* ------------------------------------------------------------------------
ObsPressures == {1000, 850, 700, 500}

ObsValues == {20, 5, -10}

TargetGrids == { <<1000, 900, 100>>, <<1100, 850, 600>>, <<1000, 700, 500, 400>> }

ExamplePressures == <<1000, 850, 700, 500>>

ExampleValues == <<20, 15, 5, -10>>

ExampleLevels == <<1000, 900, 100>>

\* ------------------------------------------------------------------------
\* vertical_interpolate as a sequence of steps
\* ------------------------------------------------------------------------
VI_Idle ==
    /\ vi_pc = "idle"
    /\ vcoord_data = << >> /\ interp_var = << >> /\ interp_levels = << >>
    /\ lnp = None /\ lnp_intervals = None /\ interp_data = None

VI_Log ==
    /\ vi_pc = "log"
    /\ lnp' = np_log(vcoord_data)
    /\ lnp_intervals' = np_log(interp_levels)
    /\ vi_pc' = "interp"
    /\ UNCHANGED <<vcoord_data, interp_var, interp_levels, interp_data>>

VI_Interp ==
    /\ vi_pc = "interp"
    /\ IF Len(lnp) = 0
       THEN /\ vi_pc' = "ValueError"
            /\ UNCHANGED interp_data
       ELSE /\ interp_data' = vi_interp(lnp, lnp_intervals, interp_var)
            /\ vi_pc' = "mask"
    /\ UNCHANGED <<vcoord_data, interp_var, interp_levels, lnp, lnp_intervals>>

VI_Mask ==
    /\ vi_pc = "mask"
    /\ interp_data' = vi_mask(interp_data, vcoord_data, interp_var, interp_levels)
    /\ vcoord_data' = seen_after_write(vcoord_data, "vcoord_data", interp_data_base, interp_data')
    /\ interp_var' = seen_after_write(interp_var, "interp_var", interp_data_base, interp_data')
    /\ interp_levels' = seen_after_write(interp_levels, "interp_levels", interp_data_base,
                                         interp_data')
    /\ lnp' = seen_after_write(lnp, "lnp", interp_data_base, interp_data')
    /\ lnp_intervals' = seen_after_write(lnp_intervals, "lnp_intervals", interp_data_base,
                                         interp_data')
    /\ vi_pc' = "return"

VI_Return ==
    /\ vi_pc = "return"
    /\ vi_pc' = "returned"
    /\ UNCHANGED <<vcoord_data, interp_var, interp_levels, lnp, lnp_intervals, interp_data>>

\* ------------------------------------------------------------------------
\* Program constants of radisonde_cross_section
\* ------------------------------------------------------------------------
KeysTaken == 8

HorizontalPoints == 100

DefaultStart == 1000

DefaultEnd == 100

DefaultStep == 10

\* ------------------------------------------------------------------------
\* numpy helpers used by radisonde_cross_section
\* ------------------------------------------------------------------------
Min(a, b) == IF a < b THEN a ELSE b

\* mutant: the slice stops one key early
Take_one_less(s, n) == SubSeq(s, 1, Min(n, Len(s)) - 1)

\* keys()[:n]
Take(s, n) == SubSeq(s, 1, Min(n, Len(s)))

\* mutant: the count is rounded down, so a last partial stride is dropped
np_arange_down_floor(first, stop, stride) ==
    LET n == IF first > stop THEN (first - stop) \div stride ELSE 0
    IN  [i \in 1..n |-> first - (i - 1) * stride]

\* np.arange(first, stop, -stride) for stride > 0: first, first - stride, ... while > stop
np_arange_down(first, stop, stride) ==
    LET n == IF first > stop THEN (first - stop + stride - 1) \div stride ELSE 0
    IN  [i \in 1..n |-> first - (i - 1) * stride]

\* mutant: the samples are spaced too widely, so the last ones pass the end point
np_linspace_past_end(a, b, num) ==
    [i \in 1..num |-> RatAdd(a, RatDiv(RatMul(Int2Rat(i - 1), RatSub(b, a)), Int2Rat(num - 2)))]

\* mutant: the end point is left out
np_linspace_open(a, b, num) ==
    [i \in 1..(num - 1) |-> RatAdd(a, RatDiv(RatMul(Int2Rat(i - 1), RatSub(b, a)), Int2Rat(num - 1)))]

\* mutant: the axis runs from the last station's distance to the first's
np_linspace_swapped(a, b, num) ==
    [i \in 1..num |-> RatAdd(b, RatDiv(RatMul(Int2Rat(i - 1), RatSub(a, b)), Int2Rat(num - 1)))]

\* np.linspace(a, b, num) for num >= 2
np_linspace(a, b, num) ==
    [i \in 1..num |-> RatAdd(a, RatDiv(RatMul(Int2Rat(i - 1), RatSub(b, a)), Int2Rat(num - 1)))]

\* np.empty((rows, cols)): the cells hold whatever the allocator left there
np_empty(rows, cols, left) == [i \in 1..rows |-> [j \in 1..cols |-> left]]

\* mutant: the last row of the array is never written
assign_all_but_last(arr, src) ==
    [i \in 1..Len(arr) |->
        IF i = Len(arr) THEN arr[i] ELSE [j \in 1..Len(arr[i]) |-> src[i][j]]]

\* arr[:] = src for 2D arrays of the same shape
assign_all(arr, src) == [i \in 1..Len(arr) |-> [j \in 1..Len(arr[i]) |-> src[i][j]]]

\* np.meshgrid(a, b) with the default 'xy' indexing: two arrays of shape (len(b), len(a))
meshgrid_first(a, b) == [i \in 1..Len(b) |-> [j \in 1..Len(a) |-> a[j]]]

meshgrid_second(a, b) == [i \in 1..Len(b) |-> [j \in 1..Len(a) |-> b[i]]]

\* mutant: the array is flattened column by column
flatten_column_major(m) ==
    IF Len(m) = 0 THEN << >>
    ELSE [n \in 1..(Len(m) * Len(m[1])) |-> m[((n - 1) % Len(m)) + 1][((n - 1) \div Len(m)) + 1]]

\* ndarray.flatten() of a 2D array, row-major
RECURSIVE flatten(_)
flatten(m) == IF Len(m) = 0 THEN << >> ELSE m[1] \o flatten(Tail(m))

\* ------------------------------------------------------------------------
\* Geod(ellps='sphere').inv: great-circle distance on the sphere of radius
\* 6370997 m, tabulated in kilometres for the places of the model.
\* ------------------------------------------------------------------------
Places == << <<-105, 40>>, <<-101, 41>>, <<-96, 41>> >>

SphereKm == << <<0, 356, 769>>, <<356, 0, 420>>, <<769, 420, 0>> >>

PlaceIndex(lon, lat) == CHOOSE i \in 1..Len(Places) : Places[i] = <<lon, lat>>

\* mutant: each distance is measured from the previous station
geod_inv_consecutive(lons1, lats1, lons2, lats2) ==
    [i \in 1..Len(lons2) |->
        IF i = 1
        THEN Int2Rat(SphereKm[PlaceIndex(lons1[i], lats1[i])][PlaceIndex(lons2[i], lats2[i])])
        ELSE Int2Rat(SphereKm[PlaceIndex(lons2[i - 1], lats2[i - 1])][PlaceIndex(lons2[i], lats2[i])])]

geod_inv(lons1, lats1, lons2, lats2) ==
    [i \in 1..Len(lons2) |->
        Int2Rat(SphereKm[PlaceIndex(lons1[i], lats1[i])][PlaceIndex(lons2[i], lats2[i])])]

\* nstns*[v]
Repeat(n, v) == [i \in 1..n |-> v]

\* ------------------------------------------------------------------------
\* mpcalc.height_to_pressure_std: the standard atmosphere,
\* p = 1013.25 * (1 - 6.5e-3 * h / 288)^5.2559, tabulated in hPa for the
\* station elevations of the model.
\* ------------------------------------------------------------------------
StdAtmosphere == [h \in {1625, 849, 350} |-> CASE h = 1625 -> 833 [] h = 849 -> 915 [] h = 350 -> 972]

height_to_pressure_std(heights) == [i \in 1..Len(heights) |-> StdAtmosphere[heights[i]]]

\* ------------------------------------------------------------------------
\* scipy.interpolate.griddata(points, values, xi, method='cubic') in 2D.
\* The interpolant is built on the Delaunay triangulation of the points,
\* which cannot be built when all points lie on one line.  The points handed
\* over by radisonde_cross_section are the full lattice of station distances
\* and pressure levels, so they are collinear exactly when one of the two
\* axes has a single distinct value, and their convex hull is the bounding
\* rectangle.  At a scattered point the interpolant returns that point's
\* value; elsewhere inside the hull its value is the library's cubic
\* interpolant, kept abstract as "cubic"; outside the hull it is NaN.
\* ------------------------------------------------------------------------
SetMin(S) == CHOOSE a \in S : \A b \in S : RatLeq(a, b)

SetMax(S) == CHOOSE a \in S : \A b \in S : RatLeq(b, a)

griddata(points_x, points_y, values, xi_x, xi_y) ==
    LET px    == points_x
        py    == points_y
        vals  == values
        n     == Len(px)
        xs    == {px[k] : k \in 1..n}
        ys    == {Int2Rat(py[k]) : k \in 1..n}
        x_lo  == SetMin(xs)
        x_hi  == SetMax(xs)
        y_lo  == SetMin(ys)
        y_hi  == SetMax(ys)
        at(qx, qy) == CHOOSE k \in 1..n : px[k] = qx /\ py[k] = qy
        cell(qx, qy) ==
            IF qx \in xs /\ Int2Rat(qy) \in ys
            THEN [kind |-> "obs", v |-> vals[at(qx, qy)]]
            ELSE IF /\ RatLeq(x_lo, qx) /\ RatLeq(qx, x_hi)
                    /\ RatLeq(y_lo, Int2Rat(qy)) /\ RatLeq(Int2Rat(qy), y_hi)
                 THEN [kind |-> "cubic", v |-> None]
                 ELSE [kind |-> "nan", v |-> None]
    IN  IF Cardinality(xs) < 2 \/ Cardinality(ys) < 2
        THEN [raised |-> "QhullError", value |-> None]
        ELSE [raised |-> "none",
              value  |-> [i \in 1..Len(xi_x) |->
                            [j \in 1..Len(xi_x[i]) |-> cell(xi_x[i][j], xi_y[i][j])]]]

\* ------------------------------------------------------------------------
\* Inputs of radisonde_cross_section.  A sounding table has the columns of
\* the Wyoming archive in their order; the station coordinates are columns
\* repeated on every row.
\* ------------------------------------------------------------------------
\* mutant: the elevation column comes eighth, within the keys that are taken
Columns_elevation_eighth ==
    << "pressure", "height", "temperature", "dewpoint", "direction", "speed",
       "u_wind", "elevation", "v_wind", "station", "station_number", "time",
       "latitude", "longitude" >>

Columns ==
    << "pressure", "height", "temperature", "dewpoint", "direction", "speed",
       "u_wind", "v_wind", "station", "station_number", "time",
       "latitude", "longitude", "elevation" >>

Sounding(p, h, t, td, dir, spd, u, v, lat, lon, el) ==
    [columns |-> Columns,
     values  |-> [pressure |-> p, height |-> h, temperature |-> t, dewpoint |-> td,
                  direction |-> dir, speed |-> spd, u_wind |-> u, v_wind |-> v,
                  latitude |-> Repeat(Len(p), lat), longitude |-> Repeat(Len(p), lon),
                  elevation |-> Repeat(Len(p), el)]]

Stations == {"DNR", "LBF", "OAX"}

df ==
    [s \in Stations |->
        CASE s = "DNR" -> Sounding(<<840, 700, 300>>, <<1625, 3180, 9600>>, <<24, 10, -35>>,
                                   <<2, -8, -50>>, <<180, 250, 270>>, <<5, 20, 60>>,
                                   <<0, 19, 60>>, <<5, 7, 0>>, 40, -105, 1625)
          [] s = "LBF" -> Sounding(<<910, 700, 500, 200>>, <<849, 3150, 5800, 12100>>,
                                   <<26, 9, -12, -55>>, <<12, 1, -30, -70>>,
                                   <<160, 230, 260, 270>>, <<10, 25, 40, 80>>,
                                   <<-3, 19, 39, 80>>, <<9, 16, 7, 0>>, 41, -101, 849)
          [] s = "OAX" -> Sounding(<<970, 850>>, <<350, 1500>>, <<28, 19>>, <<18, 14>>,
                                   <<150, 190>>, <<8, 22>>, <<-4, 4>>, <<7, 22>>,
                                   41, -96, 350)]

\* Tables with the same columns in another order: pressure third among the
\* eight columns that are taken (latitude among them, v_wind behind them),
\* and pressure ninth, behind the eight.
ColumnsPressureThird ==
    << "height", "temperature", "pressure", "dewpoint", "direction", "speed",
       "u_wind", "latitude", "v_wind", "station", "station_number", "time",
       "longitude", "elevation" >>

ColumnsPressureNinth ==
    << "height", "temperature", "dewpoint", "direction", "speed",
       "u_wind", "v_wind", "latitude", "pressure", "station", "station_number",
       "time", "longitude", "elevation" >>

WithColumns(tables, cols) ==
    [s \in DOMAIN tables |-> [tables[s] EXCEPT !.columns = cols]]

Layouts == {Columns, ColumnsPressureThird, ColumnsPressureNinth}

\* the grid used with the reordered tables
LayoutGrid == <<1000, 700, 100>>

GridParams ==
    { <<DefaultStart, DefaultEnd, DefaultStep>>,
      <<1000, 700, 100>>, <<900, 500, 150>>, <<1000, 100, 400>>, <<850, 850, 50>> }

\* ------------------------------------------------------------------------
\* radisonde_cross_section as a sequence of steps
\* ------------------------------------------------------------------------
CS_Idle ==
    /\ pc = "idle"
    /\ stns = << >> /\ data = None /\ start = 0 /\ end = 0 /\ step = 0
    /\ vertical_levels = None /\ plevs = None /\ nstns = None
    /\ lats = None /\ lons = None /\ elev = None /\ keys = None /\ tmp_grid = None
    /\ key_i = 0 /\ loc = 0
    /\ dist = None /\ ground_elevation = None /\ grid = None /\ x = None /\ nx = None
    /\ pp = None /\ xx = None /\ pdist = None /\ ddist = None /\ grid_i = 0
    /\ raised = "none" /\ cross_section = None
    /\ call_no = 0 /\ variant = "none" /\ first_result = None /\ first_columns = None
    /\ vi_calls = << >> /\ griddata_calls = 0

\* the caller's arguments
cs_args == <<stns, data, start, end, step>>

\* what the allocator leaves in a new array: memory never written during the
\* first call, memory the first call has freed during a later call
allocator_left == IF call_no = 1 THEN "uninit" ELSE "stale"

\* Set up vertical grid; number of vertical levels and stations
SetUpVerticalGrid ==
    /\ pc = "call"
    /\ vertical_levels' = np_arange_down(start, end - 1, step)
    /\ plevs' = Len(vertical_levels')
    /\ nstns' = Len(stns)
    /\ pc' = "keys"
    /\ UNCHANGED <<cs_args, lats, lons, elev, keys, tmp_grid, key_i, loc, dist,
                   ground_elevation, grid, x, nx, pp, xx, pdist, ddist, grid_i,
                   raised, cross_section>>

\* lats, lons, elev = []; keys = data[stns[0]].keys()[:8]; tmp_grid = dict.fromkeys(keys)
SetUpKeys ==
    /\ pc = "keys"
    /\ lats' = << >> /\ lons' = << >> /\ elev' = << >>
    /\ IF nstns = 0
       THEN /\ raised' = "IndexError"
            /\ pc' = "raised"
            /\ UNCHANGED <<keys, tmp_grid, key_i, loc>>
       ELSE /\ keys' = Take(data[stns[1]].columns, KeysTaken)
            /\ tmp_grid' = [k \in {keys'[i] : i \in 1..Len(keys')} |-> None]
            /\ key_i' = 1
            /\ loc' = 0
            /\ pc' = "interp"
            /\ UNCHANGED raised
    /\ UNCHANGED <<cs_args, vertical_levels, plevs, nstns, dist,
                   ground_elevation, grid, x, nx, pp, xx, pdist, ddist, grid_i,
                   cross_section>>

\* for key in tmp_grid.keys(): tmp_grid[key] = np.empty((nstns, plevs))
AllocateKey ==
    /\ pc = "interp"
    /\ loc = 0
    /\ tmp_grid' = [tmp_grid EXCEPT ![keys[key_i]] = np_empty(nstns, plevs, allocator_left)]
    /\ loc' = 1
    /\ UNCHANGED <<cs_args, vertical_levels, plevs, nstns, lats, lons, elev, keys, key_i,
                   dist, ground_elevation, grid, x, nx, pp, xx, pdist, ddist, grid_i,
                   pc, raised, cross_section>>

\* mutant: the item is put in front of the list
list_append_front(list, item) == <<item>> \o list

\* list.append(item)
list_append(list, item) == Append(list, item)

\* mutant: the stations are taken from the last to the first
loop_station_backwards(stns_, loc_) == stns_[Len(stns_) + 1 - loc_]

\* the station of iteration loc of: for station, loc in zip(stns, range(nstns))
loop_station(stns_, loc_) == stns_[loc_]

\* one iteration of: for station, loc in zip(stns, range(nstns))
InterpolateStation ==
    /\ pc = "interp"
    /\ loc \in 1..nstns
    /\ LET key     == keys[key_i]
           station == loop_station(stns, loc)
           last    == loc = nstns
           col     == vertical_interpolate(data[station].values["pressure"],
                                           data[station].values[key], vertical_levels)
           advance == /\ loc' = IF last THEN 0 ELSE loc + 1
                      /\ key_i' = IF last THEN key_i + 1 ELSE key_i
                      /\ pc' = IF last /\ key_i = Len(keys) THEN "distance" ELSE "interp"
                      /\ UNCHANGED raised
           \* the station's table after the in-place writes of vertical_interpolate
           table   == [data[station] EXCEPT
                          !.values["pressure"] = seen_after_write(@, "vcoord_data",
                                                     interp_data_base, col.value),
                          !.values[key] = seen_after_write(@, "interp_var",
                                                     interp_data_base, col.value)]
       IN  IF key = "pressure"
           THEN /\ lats' = list_append(lats, data[station].values["latitude"][1])
                /\ lons' = list_append(lons, data[station].values["longitude"][1])
                /\ elev' = list_append(elev, data[station].values["elevation"][1])
                /\ tmp_grid' = [tmp_grid EXCEPT ![key][loc] = AsFloat(vertical_levels)]
                /\ advance
                /\ UNCHANGED <<vi_calls, data>>
           ELSE /\ UNCHANGED <<lats, lons, elev>>
                /\ vi_calls' = [vi_calls EXCEPT ![loc] = @ + 1]
                /\ IF col.raised = "none"
                   THEN /\ tmp_grid' = [tmp_grid EXCEPT ![key][loc] = col.value]
                        /\ data' = [data EXCEPT ![station] = table]
                        /\ advance
                   ELSE /\ raised' = col.raised
                        /\ pc' = "raised"
                        /\ UNCHANGED <<tmp_grid, loc, key_i, data>>
    /\ UNCHANGED <<stns, start, end, step, vertical_levels, plevs, nstns, keys, dist,
                   ground_elevation, grid, x, nx, pp, xx, pdist, ddist, grid_i,
                   cross_section, griddata_calls>>

\* g = Geod(ellps='sphere'); _, _, dist = g.inv(nstns*[lons[0]], nstns*[lats[0]], lons[:], lats[:])
ComputeDistance ==
    /\ pc = "distance"
    /\ IF Len(lons) = 0
       THEN /\ raised' = "IndexError"
            /\ pc' = "raised"
            /\ UNCHANGED dist
       ELSE /\ dist' = geod_inv(Repeat(nstns, lons[1]), Repeat(nstns, lats[1]), lons, lats)
            /\ pc' = "elevation"
            /\ UNCHANGED raised
    /\ UNCHANGED <<cs_args, vertical_levels, plevs, nstns, lats, lons, elev, keys, tmp_grid,
                   key_i, loc, ground_elevation, grid, x, nx, pp, xx, pdist, ddist, grid_i,
                   cross_section>>

\* ground_elevation = mpcalc.height_to_pressure_std(np.array(elev) * units('meters'))
ComputeGroundElevation ==
    /\ pc = "elevation"
    /\ ground_elevation' = height_to_pressure_std(elev)
    /\ pc' = "mesh"
    /\ UNCHANGED <<cs_args, vertical_levels, plevs, nstns, lats, lons, elev, keys, tmp_grid,
                   key_i, loc, dist, grid, x, nx, pp, xx, pdist, ddist, grid_i,
                   raised, cross_section>>

\* Set up grid for 2D interpolation
SetUpMesh ==
    /\ pc = "mesh"
    /\ grid' = [k \in {keys[i] : i \in 1..Len(keys)} |-> None]
    /\ x' = np_linspace(dist[1], dist[Len(dist)], HorizontalPoints)
    /\ nx' = Len(x')
    /\ pp' = meshgrid_first(vertical_levels, x')
    /\ xx' = meshgrid_second(vertical_levels, x')
    /\ pdist' = meshgrid_first(vertical_levels, dist)
    /\ ddist' = meshgrid_second(vertical_levels, dist)
    /\ grid_i' = 1
    /\ pc' = "griddata"
    /\ UNCHANGED <<cs_args, vertical_levels, plevs, nstns, lats, lons, elev, keys, tmp_grid,
                   key_i, loc, dist, ground_elevation, raised, cross_section>>

\* one iteration of: for key in grid.keys()
GridKey ==
    /\ pc = "griddata"
    /\ grid_i <= Len(keys)
    /\ griddata_calls' = griddata_calls + 1
    /\ LET key == keys[grid_i]
           res == griddata(flatten(ddist), flatten(pdist), flatten(tmp_grid[key]), xx, pp)
       IN  IF res.raised = "none"
           THEN /\ grid' = [grid EXCEPT ![key] =
                               assign_all(np_empty(nx, plevs, allocator_left), res.value)]
                /\ grid_i' = grid_i + 1
                /\ UNCHANGED <<pc, raised>>
           ELSE /\ raised' = res.raised
                /\ pc' = "raised"
                /\ UNCHANGED <<grid, grid_i>>
    /\ UNCHANGED <<cs_args, vertical_levels, plevs, nstns, lats, lons, elev, keys, tmp_grid,
                   key_i, loc, dist, ground_elevation, x, nx, pp, xx, pdist, ddist,
                   cross_section, vi_calls>>

\* Gather needed data in dictionary for return
Return ==
    /\ pc = "griddata"
    /\ grid_i > Len(keys)
    /\ cross_section' = [grid_data |-> grid, obs_distance |-> dist,
                         x_grid |-> xx, p_grid |-> pp, elevation |-> ground_elevation]
    /\ pc' = "returned"
    /\ UNCHANGED <<cs_args, vertical_levels, plevs, nstns, lats, lons, elev, keys, tmp_grid,
                   key_i, loc, dist, ground_elevation, grid, x, nx, pp, xx, pdist, ddist,
                   grid_i, raised>>

\* the tables with the station elevations replaced by those of el
WithElevations(tables, el) ==
    [s \in DOMAIN tables |->
        [tables[s] EXCEPT !.values.elevation = Repeat(Len(@), el[s])]]

OtherElevations == [s \in Stations |->
                       CASE s = "DNR" -> 849 [] s = "LBF" -> 350 [] s = "OAX" -> 1625]

\* the tables with the profile of station s replaced by another one: every
\* pressure 10 hPa lower, every temperature 5 degrees higher
WithOtherProfile(tables, s) ==
    [tables EXCEPT ![s].values.pressure = [i \in 1..Len(@) |-> @[i] - 10],
                   ![s].values.temperature = [i \in 1..Len(@) |-> @[i] + 5]]

\* how the arguments of a second call differ from those of the first: not at
\* all, or in the station elevations
Variants == {"same", "elevation"}

\* second calls whose arguments differ in the profile of the first station
\* of the path, or in the order of the stations
ChangedVariants == {"profile", "reversed"}

\* The caller calls radisonde_cross_section a second time after the first
\* call has returned, with the same arguments or with arguments that differ
\* as one of Variants says.  The second call runs in a new frame: no local
\* of the first call is bound in it.
CallAgainAs(variants) ==
    /\ pc = "returned"
    /\ call_no = 1
    /\ Len(stns) <= MaxRepeatStns
    /\ call_no' = 2
    /\ first_result' = cross_section
    /\ first_columns' = tmp_grid
    /\ \E v \in variants :
           /\ variant' = v
           /\ data' = CASE v = "elevation" -> WithElevations(data, OtherElevations)
                         [] v = "profile" -> WithOtherProfile(data, stns[1])
                         [] OTHER -> data
           /\ stns' = IF v = "reversed" THEN Reverse(stns) ELSE stns
    /\ pc' = "call"
    /\ vertical_levels' = None /\ plevs' = None /\ nstns' = None
    /\ lats' = None /\ lons' = None /\ elev' = None /\ keys' = None /\ tmp_grid' = None
    /\ key_i' = 0 /\ loc' = 0
    /\ dist' = None /\ ground_elevation' = None /\ grid' = None /\ x' = None /\ nx' = None
    /\ pp' = None /\ xx' = None /\ pdist' = None /\ ddist' = None /\ grid_i' = 0
    /\ cross_section' = None
    /\ vi_calls' = [i \in 1..Len(stns) |-> 0]
    /\ griddata_calls' = 0
    /\ UNCHANGED <<start, end, step, raised>>

CallAgain == CallAgainAs(Variants)

CallAgainChanged == CallAgainAs(ChangedVariants)

\* ------------------------------------------------------------------------
\* find_time_var(var, time_basename='time').  A string is a sequence of
\* one-character strings.
\* ------------------------------------------------------------------------
\* the longest coordinates string
MaxChars == 4

Whitespace == {" ", "\t"}

NameChars == {"t", "i", "x"}

Basenames == {<< >>, <<"t">>, <<"t", "i">>, <<"x">>}

\* the words of s after the word being read, which starts with word
RECURSIVE split_words(_, _)
split_words(s, word) ==
    LET done == IF Len(word) = 0 THEN << >> ELSE <<word>>
    IN  IF Len(s) = 0 THEN done
        ELSE IF Head(s) \in Whitespace THEN done \o split_words(Tail(s), << >>)
        ELSE split_words(Tail(s), Append(word, Head(s)))

\* mutant: the words come last to first
str_split_backwards(s) == Reverse(split_words(s, << >>))

\* str.split(): the maximal runs of characters that are not whitespace
str_split(s) == split_words(s, << >>)

\* mutant: the name ends with the prefix
str_endswith(name, prefix) ==
    /\ Len(prefix) <= Len(name)
    /\ SubSeq(name, Len(name) - Len(prefix) + 1, Len(name)) = prefix

\* str.startswith(prefix)
str_startswith(name, prefix) ==
    /\ Len(prefix) <= Len(name)
    /\ SubSeq(name, 1, Len(prefix)) = prefix

FTV_Idle ==
    /\ ftv_pc = "idle"
    /\ coordinates = << >> /\ time_basename = << >>
    /\ coord_names = None /\ coord_i = 0 /\ coord_name = None /\ ftv_result = None

\* var.coordinates.split()
FTV_Split ==
    /\ ftv_pc = "call"
    /\ coord_names' = str_split(coordinates)
    /\ coord_i' = 0
    /\ ftv_pc' = "for"
    /\ UNCHANGED <<coordinates, time_basename, coord_name, ftv_result>>

\* for coord_name in ...: the next name, or the raise after the loop
FTV_For ==
    /\ ftv_pc = "for"
    /\ IF coord_i < Len(coord_names)
       THEN /\ coord_i' = coord_i + 1
            /\ coord_name' = coord_names[coord_i + 1]
            /\ ftv_pc' = "if"
       ELSE /\ ftv_pc' = "ValueError"
            /\ UNCHANGED <<coord_i, coord_name>>
    /\ UNCHANGED <<coordinates, time_basename, coord_names, ftv_result>>

\* if coord_name.startswith(time_basename): return coord_name
FTV_If ==
    /\ ftv_pc = "if"
    /\ IF str_startswith(coord_name, time_basename)
       THEN /\ ftv_result' = coord_name
            /\ ftv_pc' = "returned"
       ELSE /\ ftv_pc' = "for"
            /\ UNCHANGED ftv_result
    /\ UNCHANGED <<coordinates, time_basename, coord_names, coord_i, coord_name>>

\* ------------------------------------------------------------------------
\* contrast_correction(color, contrast).  An element of a float array is a
\* number or NaN.
\* ------------------------------------------------------------------------
\* the longest colour array
MaxPixels == 2

Num(n, d) == [kind |-> "num", v |-> Rat(n, d)]

NaN == [kind |-> "nan", v |-> Int2Rat(0)]

ColorValues == {Num(-1, 2), Num(0, 1), Num(1, 4), Num(1, 2), Num(3, 4), Num(1, 1), Num(3, 2), NaN}

Contrasts == {-300, -255, -128, 0, 105, 128, 255, 259, 66045, 66100}

\* arithmetic of an array element with a number
float_sub(a, r) == IF a.kind = "nan" THEN NaN ELSE [kind |-> "num", v |-> RatSub(a.v, r)]

float_add(a, r) == IF a.kind = "nan" THEN NaN ELSE [kind |-> "num", v |-> RatAdd(a.v, r)]

float_mul(r, a) == IF a.kind = "nan" THEN NaN ELSE [kind |-> "num", v |-> RatMul(r, a.v)]

\* the divisor of the factor: 255.*259-contrast
factor_divisor(c) == 255 * 259 - c

\* F = (259*(contrast + 255))/(255.*259-contrast)
contrast_factor(c) == Rat(259 * (c + 255), factor_divisor(c))

\* mutant: only the upper limit is applied
np_clip_upper_only(arr, lo, hi) ==
    [i \in 1..Len(arr) |->
        IF arr[i].kind = "nan" THEN NaN
        ELSE IF RatLess(hi, arr[i].v) THEN [kind |-> "num", v |-> hi]
        ELSE arr[i]]

\* np.clip(arr, lo, hi): minimum(maximum(arr, lo), hi), NaN stays NaN
np_clip(arr, lo, hi) ==
    [i \in 1..Len(arr) |->
        IF arr[i].kind = "nan" THEN NaN
        ELSE IF RatLess(arr[i].v, lo) THEN [kind |-> "num", v |-> lo]
        ELSE IF RatLess(hi, arr[i].v) THEN [kind |-> "num", v |-> hi]
        ELSE arr[i]]

CC_Idle ==
    /\ cc_pc = "idle"
    /\ color = << >> /\ contrast = 0
    /\ F = None /\ COLOR = None /\ cc_result = None

\* F = (259*(contrast + 255))/(255.*259-contrast)
CC_Factor ==
    /\ cc_pc = "call"
    /\ IF factor_divisor(contrast) = 0
       THEN /\ cc_pc' = "ZeroDivisionError"
            /\ UNCHANGED F
       ELSE /\ F' = contrast_factor(contrast)
            /\ cc_pc' = "scale"
    /\ UNCHANGED <<color, contrast, COLOR, cc_result>>

\* COLOR = F*(color-.5)+.5
CC_Scale ==
    /\ cc_pc = "scale"
    /\ COLOR' = [i \in 1..Len(color) |->
                    float_add(float_mul(F, float_sub(color[i], Rat(1, 2))), Rat(1, 2))]
    /\ cc_pc' = "clip"
    /\ UNCHANGED <<color, contrast, F, cc_result>>

\* COLOR = np.clip(COLOR, 0, 1)
CC_Clip ==
    /\ cc_pc = "clip"
    /\ COLOR' = np_clip(COLOR, Int2Rat(0), Int2Rat(1))
    /\ cc_pc' = "return"
    /\ UNCHANGED <<color, contrast, F, cc_result>>

\* return COLOR
CC_Return ==
    /\ cc_pc = "return"
    /\ cc_result' = COLOR
    /\ cc_pc' = "returned"
    /\ UNCHANGED <<color, contrast, F, COLOR>>

\* no function of the gallery notebooks is running
Gallery_Idle == FTV_Idle /\ CC_Idle

\* ------------------------------------------------------------------------
\* Specifications
\* ------------------------------------------------------------------------
\* One call of radisonde_cross_section on the sounding tables.  The default
\* grid of 10 hPa steps is explored for paths of up to two stations, the
\* coarser grids for paths of up to MaxStns stations.
Init ==
    /\ VI_Idle /\ Gallery_Idle
    /\ pc = "call"
    /\ stns \in SeqsUpTo(Stations, MaxStns)
    /\ data = df
    /\ \E g \in GridParams : start = g[1] /\ end = g[2] /\ step = g[3]
    /\ step = DefaultStep => Len(stns) <= 2
    /\ vertical_levels = None /\ plevs = None /\ nstns = None
    /\ lats = None /\ lons = None /\ elev = None /\ keys = None /\ tmp_grid = None
    /\ key_i = 0 /\ loc = 0
    /\ dist = None /\ ground_elevation = None /\ grid = None /\ x = None /\ nx = None
    /\ pp = None /\ xx = None /\ pdist = None /\ ddist = None /\ grid_i = 0
    /\ raised = "none" /\ cross_section = None
    /\ call_no = 1 /\ variant = "first" /\ first_result = None /\ first_columns = None
    /\ vi_calls = [i \in 1..Len(stns) |-> 0] /\ griddata_calls = 0

Next ==
    \/ SetUpVerticalGrid /\ UNCHANGED <<gallery_vars, vi_vars, call_vars, count_vars>>
    \/ SetUpKeys /\ UNCHANGED <<gallery_vars, vi_vars, call_vars, count_vars>>
    \/ AllocateKey /\ UNCHANGED <<gallery_vars, vi_vars, call_vars, count_vars>>
    \/ InterpolateStation /\ UNCHANGED <<gallery_vars, vi_vars, call_vars>>
    \/ ComputeDistance /\ UNCHANGED <<gallery_vars, vi_vars, call_vars, count_vars>>
    \/ ComputeGroundElevation /\ UNCHANGED <<gallery_vars, vi_vars, call_vars, count_vars>>
    \/ SetUpMesh /\ UNCHANGED <<gallery_vars, vi_vars, call_vars, count_vars>>
    \/ GridKey /\ UNCHANGED <<gallery_vars, vi_vars, call_vars>>
    \/ Return /\ UNCHANGED <<gallery_vars, vi_vars, call_vars, count_vars>>
    \/ CallAgain /\ UNCHANGED <<gallery_vars, vi_vars>>

Spec == Init /\ [][Next]_vars

\* The same call, followed by a second call on another profile for the first
\* station of the path or on the stations in reverse order.
NextChanged ==
    \/ SetUpVerticalGrid /\ UNCHANGED <<gallery_vars, vi_vars, call_vars, count_vars>>
    \/ SetUpKeys /\ UNCHANGED <<gallery_vars, vi_vars, call_vars, count_vars>>
    \/ AllocateKey /\ UNCHANGED <<gallery_vars, vi_vars, call_vars, count_vars>>
    \/ InterpolateStation /\ UNCHANGED <<gallery_vars, vi_vars, call_vars>>
    \/ ComputeDistance /\ UNCHANGED <<gallery_vars, vi_vars, call_vars, count_vars>>
    \/ ComputeGroundElevation /\ UNCHANGED <<gallery_vars, vi_vars, call_vars, count_vars>>
    \/ SetUpMesh /\ UNCHANGED <<gallery_vars, vi_vars, call_vars, count_vars>>
    \/ GridKey /\ UNCHANGED <<gallery_vars, vi_vars, call_vars>>
    \/ Return /\ UNCHANGED <<gallery_vars, vi_vars, call_vars, count_vars>>
    \/ CallAgainChanged /\ UNCHANGED <<gallery_vars, vi_vars>>

SpecChanged == Init /\ [][NextChanged]_vars

\* One call of radisonde_cross_section on tables whose columns come in one of
\* the orders of Layouts, on one coarse grid.
InitLayouts ==
    /\ VI_Idle /\ Gallery_Idle
    /\ pc = "call"
    /\ stns \in SeqsUpTo(Stations, MaxStns)
    /\ \E cols \in Layouts : data = WithColumns(df, cols)
    /\ start = LayoutGrid[1] /\ end = LayoutGrid[2] /\ step = LayoutGrid[3]
    /\ vertical_levels = None /\ plevs = None /\ nstns = None
    /\ lats = None /\ lons = None /\ elev = None /\ keys = None /\ tmp_grid = None
    /\ key_i = 0 /\ loc = 0
    /\ dist = None /\ ground_elevation = None /\ grid = None /\ x = None /\ nx = None
    /\ pp = None /\ xx = None /\ pdist = None /\ ddist = None /\ grid_i = 0
    /\ raised = "none" /\ cross_section = None
    /\ call_no = 1 /\ variant = "first" /\ first_result = None /\ first_columns = None
    /\ vi_calls = [i \in 1..Len(stns) |-> 0] /\ griddata_calls = 0

SpecLayouts == InitLayouts /\ [][Next]_vars

\* One call of vertical_interpolate on a bounded profile, or on the worked example.
InitVI ==
    /\ CS_Idle /\ Gallery_Idle
    /\ vi_pc = "log"
    /\ \/ /\ vcoord_data \in SeqsUpTo(ObsPressures, MaxObs)
          /\ interp_var \in [1..Len(vcoord_data) -> ObsValues]
          /\ interp_levels \in TargetGrids
       \/ /\ vcoord_data = ExamplePressures
          /\ interp_var = ExampleValues
          /\ interp_levels = ExampleLevels
    /\ lnp = None /\ lnp_intervals = None /\ interp_data = None

NextVI ==
    \/ VI_Log /\ UNCHANGED <<gallery_vars, cs_vars>>
    \/ VI_Interp /\ UNCHANGED <<gallery_vars, cs_vars>>
    \/ VI_Mask /\ UNCHANGED <<gallery_vars, cs_vars>>
    \/ VI_Return /\ UNCHANGED <<gallery_vars, cs_vars>>

SpecVI == InitVI /\ [][NextVI]_vars

\* Either function, called once from outside.
InitFunctions == Init \/ InitVI

NextFunctions == Next \/ NextVI

SpecFunctions == InitFunctions /\ [][NextFunctions]_vars

\* One call of find_time_var on a variable with a bounded coordinates string.
InitFTV ==
    /\ VI_Idle /\ CS_Idle /\ CC_Idle
    /\ ftv_pc = "call"
    /\ coordinates \in SeqsUpTo(NameChars \cup Whitespace, MaxChars)
    /\ time_basename \in Basenames
    /\ coord_names = None /\ coord_i = 0 /\ coord_name = None /\ ftv_result = None

NextFTV ==
    \/ FTV_Split /\ UNCHANGED <<vi_vars, cs_vars, cc_vars>>
    \/ FTV_For /\ UNCHANGED <<vi_vars, cs_vars, cc_vars>>
    \/ FTV_If /\ UNCHANGED <<vi_vars, cs_vars, cc_vars>>

SpecFTV == InitFTV /\ [][NextFTV]_vars

\* One call of contrast_correction on a bounded colour array.
InitCC ==
    /\ VI_Idle /\ CS_Idle /\ FTV_Idle
    /\ cc_pc = "call"
    /\ color \in SeqsUpTo(ColorValues, MaxPixels)
    /\ contrast \in Contrasts
    /\ F = None /\ COLOR = None /\ cc_result = None

NextCC ==
    \/ CC_Factor /\ UNCHANGED <<vi_vars, cs_vars, ftv_vars>>
    \/ CC_Scale /\ UNCHANGED <<vi_vars, cs_vars, ftv_vars>>
    \/ CC_Clip /\ UNCHANGED <<vi_vars, cs_vars, ftv_vars>>
    \/ CC_Return /\ UNCHANGED <<vi_vars, cs_vars, ftv_vars>>

SpecCC == InitCC /\ [][NextCC]_vars

\* ------------------------------------------------------------------------
\* Properties of vertical_interpolate (checked under SpecVI)
\* ------------------------------------------------------------------------
VI_Returned == vi_pc = "returned"

NObs == Len(vcoord_data)

ValidProfile == NObs >= 2 /\ StrictlyDecreasing(vcoord_data)

Obs(i) == Int2Rat(interp_var[i])

\* the linear interpolant in log-pressure between observations i and i + 1, at level t
LogLinear(i, t) ==
    RatAdd(Obs(i),
           RatDiv(RatMul(RatSub(Obs(i + 1), Obs(i)), Int2Rat(Ln(vcoord_data[i]) - Ln(t))),
                  Int2Rat(Ln(vcoord_data[i]) - Ln(vcoord_data[i + 1]))))

\* C1: for strictly decreasing observed pressures with at least two samples,
\* every target level below the lowest observed pressure gets the value
\* observed there, every target level above the highest observed pressure
\* gets the value observed there, and no output leaves the range of the
\* observed values (nothing is extrapolated).
C1_ClampPolicy ==
    (VI_Returned /\ ValidProfile) =>
        \A j \in 1..Len(interp_levels) :
            /\ interp_levels[j] < vcoord_data[NObs] => interp_data[j] = Obs(NObs)
            /\ interp_levels[j] > vcoord_data[1] => interp_data[j] = Obs(1)
            /\ \E a, b \in 1..NObs :
                   RatLeq(Obs(a), interp_data[j]) /\ RatLeq(interp_data[j], Obs(b))

C1_Witness ==
    /\ VI_Returned /\ ValidProfile
    /\ interp_var[1] # interp_var[NObs]
    /\ \E j \in 1..Len(interp_levels) : interp_levels[j] < vcoord_data[NObs]
    /\ \E j \in 1..Len(interp_levels) : interp_levels[j] > vcoord_data[1]

\* C2: for strictly decreasing observed pressures, a target level equal to an
\* observed pressure level gets the value observed at that level.
C2_ReproducesObservations ==
    (VI_Returned /\ StrictlyDecreasing(vcoord_data)) =>
        \A j \in 1..Len(interp_levels) : \A i \in 1..NObs :
            interp_levels[j] = vcoord_data[i] => interp_data[j] = Obs(i)

C2_Witness ==
    /\ VI_Returned /\ StrictlyDecreasing(vcoord_data) /\ NObs >= 3
    /\ \E j \in 1..Len(interp_levels) : \E i \in 2..(NObs - 1) :
           /\ interp_levels[j] = vcoord_data[i]
           /\ interp_var[i] # interp_var[1] /\ interp_var[i] # interp_var[NObs]

IsExample ==
    /\ vcoord_data = ExamplePressures
    /\ interp_var = ExampleValues
    /\ interp_levels = ExampleLevels

\* C3 as stated: on the worked example the output is [20, about 12.7, -10],
\* the value at 900 hPa lying between the observed values 15 and 5.
C3_ExampleAsStated ==
    (VI_Returned /\ IsExample) =>
        /\ interp_data[1] = Int2Rat(20)
        /\ RatLeq(Rat(126, 10), interp_data[2]) /\ RatLeq(interp_data[2], Rat(128, 10))
        /\ RatBetween(interp_data[2], Int2Rat(15), Int2Rat(5))
        /\ interp_data[3] = Int2Rat(-10)

\* C3 amended: on the worked example the output is [20, about 16.8, -10]; 900
\* hPa lies between the observations at 1000 and 850 hPa, so the value there
\* is the log-pressure interpolation between the observed values 20 and 15.
C3_Example ==
    (VI_Returned /\ IsExample) =>
        /\ interp_data[1] = Int2Rat(20)
        /\ RatLeq(Rat(167, 10), interp_data[2]) /\ RatLeq(interp_data[2], Rat(168, 10))
        /\ interp_data[2] = LogLinear(1, 900)
        /\ RatBetween(interp_data[2], Int2Rat(20), Int2Rat(15))
        /\ interp_data[3] = Int2Rat(-10)

C3_Witness == VI_Returned /\ IsExample /\ Len(interp_data) = 3

\* C4: for strictly decreasing observed pressures and a target level t with
\* P[i] >= t >= P[i+1], the output is
\* V[i] + (V[i+1] - V[i]) * (ln P[i] - ln t) / (ln P[i] - ln P[i+1])
\* and lies between V[i] and V[i+1].
C4_LogLinearBetweenBrackets ==
    (VI_Returned /\ ValidProfile) =>
        \A j \in 1..Len(interp_levels) : \A i \in 1..(NObs - 1) :
            (vcoord_data[i] >= interp_levels[j] /\ interp_levels[j] >= vcoord_data[i + 1]) =>
                /\ interp_data[j] = LogLinear(i, interp_levels[j])
                /\ RatBetween(interp_data[j], Obs(i), Obs(i + 1))

C4_Witness ==
    /\ VI_Returned /\ ValidProfile
    /\ \E j \in 1..Len(interp_levels) : \E i \in 1..(NObs - 1) :
           /\ vcoord_data[i] > interp_levels[j] /\ interp_levels[j] > vcoord_data[i + 1]
           /\ interp_var[i] # interp_var[i + 1]
           /\ interp_data[j] # Obs(i) /\ interp_data[j] # Obs(i + 1)

\* C5: when the observed pressure sequence has fewer than two samples or is
\* not monotonically decreasing, the call does not return interpolated values
\* (it fails with an error).
C5_RejectsInvalidProfiles ==
    (NObs < 2 \/ ~StrictlyDecreasing(vcoord_data)) => ~VI_Returned

\* C6: the output has exactly one value per target level, and output[j] is
\* the value that belongs to interp_levels[j]: the value the interpolation
\* gives for that level on its own.
C6_OneValuePerLevelInOrder ==
    VI_Returned =>
        /\ Len(interp_data) = Len(interp_levels)
        /\ StrictlyDecreasing(vcoord_data) =>
               \A j \in 1..Len(interp_levels) :
                   interp_data[j] =
                       vertical_interpolate(vcoord_data, interp_var, <<interp_levels[j]>>).value[1]

C6_Witness ==
    /\ VI_Returned /\ ValidProfile
    /\ Len(interp_levels) >= 3
    /\ interp_data[1] # interp_data[Len(interp_data)]
    /\ interp_data[2] # interp_data[1] /\ interp_data[2] # interp_data[Len(interp_data)]

\* ------------------------------------------------------------------------
\* Properties of radisonde_cross_section (checked under Spec)
\* ------------------------------------------------------------------------
Returned == pc = "returned"

Terminated == pc \in {"returned", "raised"}

GridShapeIs(rows, cols) ==
    \A k \in DOMAIN cross_section.grid_data :
        /\ Len(cross_section.grid_data[k]) = rows
        /\ \A i \in 1..Len(cross_section.grid_data[k]) :
               Len(cross_section.grid_data[k][i]) = cols

IsDefaultCall == start = DefaultStart /\ end = DefaultEnd /\ step = DefaultStep

\* C8: called with the default start = 1000, end = 100, step = 10 the grids
\* have 90 vertical points.
C8_DefaultGridHas90Levels ==
    (Returned /\ IsDefaultCall) => GridShapeIs(HorizontalPoints, 90)

LastLevel == vertical_levels[Len(vertical_levels)]

GridIsSet == pc \notin {"call"}

UniformlyDecreasing ==
    \A i \in 1..(Len(vertical_levels) - 1) :
        /\ vertical_levels[i] > vertical_levels[i + 1]
        /\ vertical_levels[i] - vertical_levels[i + 1] = step

\* the rows of tmp_grid[keys[ki]] that the loop has filled so far
FilledRows(ki) ==
    IF ki < key_i THEN 1..nstns
    ELSE IF ki = key_i /\ loc >= 1 THEN 1..(loc - 1)
    ELSE {}

\* every station row filled so far holds one value per level of the one grid,
\* and the pressure rows are that grid itself
SharedByStations ==
    key_i >= 1 =>
        \A ki \in 1..Len(keys) : \A s \in FilledRows(ki) :
            /\ Len(tmp_grid[keys[ki]][s]) = Len(vertical_levels)
            /\ keys[ki] = "pressure" => tmp_grid[keys[ki]][s] = AsFloat(vertical_levels)

\* C9 as stated: the grid runs from start to end: first level start, last
\* level end, strictly decreasing with uniform spacing step, shared by all
\* stations.
C9_GridRunsFromStartToEnd ==
    GridIsSet =>
        /\ Len(vertical_levels) >= 1
        /\ vertical_levels[1] = start
        /\ LastLevel = end
        /\ UniformlyDecreasing
        /\ SharedByStations

\* C9 amended: the first level is start and the levels decrease strictly with
\* uniform spacing step down to the last level that is not below end; the
\* last level is end exactly when step divides start - end; the same grid is
\* used for every station.
C9_GridRunsFromStartTowardsEnd ==
    GridIsSet =>
        /\ Len(vertical_levels) >= 1
        /\ vertical_levels[1] = start
        /\ LastLevel >= end
        /\ LastLevel - step < end
        /\ (LastLevel = end) <=> ((start - end) % step = 0)
        /\ UniformlyDecreasing
        /\ SharedByStations

C9_Witness ==
    /\ Returned
    /\ (start - end) % step # 0
    /\ Len(vertical_levels) >= 3
    /\ Len(stns) >= 2

\* the coordinates of the station at position i of the path, from its table
StationLon(i) == data[stns[i]].values["longitude"][1]

StationLat(i) == data[stns[i]].values["latitude"][1]

FromFirstStation(i) ==
    Int2Rat(SphereKm[PlaceIndex(StationLon(1), StationLat(1))]
                    [PlaceIndex(StationLon(i), StationLat(i))])

DistanceIsSet == pc \in {"elevation", "mesh", "griddata", "returned"}

\* C10: obs_distance has one entry per station in input order, entry i being
\* the distance from the first station to station i; its first entry is 0,
\* and a station at the coordinates of the first station has distance 0.
C10_DistancesFromFirstStation ==
    /\ DistanceIsSet =>
           /\ Len(dist) = Len(stns)
           /\ dist[1] = Int2Rat(0)
           /\ \A i \in 1..Len(stns) :
                  /\ dist[i] = FromFirstStation(i)
                  /\ (StationLon(i) = StationLon(1) /\ StationLat(i) = StationLat(1)) =>
                         dist[i] = Int2Rat(0)
    /\ Returned => cross_section.obs_distance = dist

C10_Witness ==
    /\ Returned
    /\ Len(stns) = 3
    /\ stns[3] = stns[1]
    /\ stns[2] # stns[1]
    /\ cross_section.obs_distance[2] # Int2Rat(0)

\* ------------------------------------------------------------------------
\* The distance array and the horizontal axis
\* ------------------------------------------------------------------------
NonDecreasing(s) == \A i \in 1..(Len(s) - 1) : RatLeq(s[i], s[i + 1])

\* C11 as stated: obs_distance is non-decreasing along the stations in the
\* order they were supplied.
C11_DistancesNonDecreasing ==
    DistanceIsSet => NonDecreasing(dist)

\* C11 amended: the first distance is 0 and no distance is negative; the
\* array is non-decreasing exactly when every station is at least as far
\* from the first station as the station supplied before it (the stations
\* are neither sorted nor checked).
C11_DistancesFollowInputOrder ==
    DistanceIsSet =>
        /\ dist[1] = Int2Rat(0)
        /\ \A i \in 1..Len(dist) : RatLeq(Int2Rat(0), dist[i])
        /\ NonDecreasing(dist) <=>
               \A i \in 1..(Len(stns) - 1) :
                   RatLeq(FromFirstStation(i), FromFirstStation(i + 1))

C11_Witness ==
    /\ Returned
    /\ Len(stns) = 3
    /\ stns[3] # stns[1]
    /\ RatLess(cross_section.obs_distance[3], cross_section.obs_distance[2])

AxisIsSet == pc \in {"griddata", "returned"}

\* C12: the horizontal axis has exactly 100 evenly spaced sample points, the
\* first at the first station's distance and the last at the last station's
\* distance, and it increases from the first station: no sample is smaller
\* than the one before it, and each is larger when the last station is away
\* from the first.  Row i of x_grid holds sample i at every level.
C12_HorizontalAxis ==
    /\ AxisIsSet =>
           /\ Len(x) = HorizontalPoints
           /\ nx = HorizontalPoints
           /\ x[1] = dist[1]
           /\ x[Len(x)] = dist[Len(dist)]
           /\ \A i \in 1..(Len(x) - 1) :
                  /\ RatSub(x[i + 1], x[i]) = RatSub(x[2], x[1])
                  /\ RatLeq(x[i], x[i + 1])
                  /\ RatLess(dist[1], dist[Len(dist)]) => RatLess(x[i], x[i + 1])
           /\ \A i \in 1..Len(x) : \A j \in 1..Len(vertical_levels) : xx[i][j] = x[i]
    /\ Returned => cross_section.x_grid = xx

C12_Witness ==
    /\ Returned
    /\ Len(stns) = 3
    /\ RatLess(dist[1], dist[Len(dist)])
    /\ RatLess(dist[Len(dist)], dist[2])
    /\ RatLess(cross_section.x_grid[1][1], cross_section.x_grid[2][1])
    /\ cross_section.x_grid[HorizontalPoints][1] = dist[3]

\* ------------------------------------------------------------------------
\* The returned dictionary
\* ------------------------------------------------------------------------
\* the entries of the returned dictionary as the docstring names them
DocumentedEntries == {"grid_data", "obs_distance", "x_grid", "p_grid", "ground_elevation"}

\* C13: the returned dictionary contains the entries the documentation
\* names: grid_data, obs_distance, x_grid, p_grid and ground_elevation.
C13_ReturnsDocumentedEntries ==
    Returned => DocumentedEntries \subseteq DOMAIN cross_section

\* ------------------------------------------------------------------------
\* Step 1: the station columns on the standard grid
\* ------------------------------------------------------------------------
\* the samples of column key in the table of the station at position s
StationSamples(s, key) == data[stns[s]].values[key]

\* the value of a profile (P, V) of strictly decreasing pressures at level t:
\* the nearest observation outside the observed range, the linear
\* interpolant in log-pressure between the bracketing observations inside
ProfileAt(P, V, t) ==
    IF t > P[1] THEN Int2Rat(V[1])
    ELSE IF t < P[Len(P)] THEN Int2Rat(V[Len(P)])
    ELSE IF t = P[Len(P)] THEN Int2Rat(V[Len(P)])
    ELSE LET i == CHOOSE k \in 1..(Len(P) - 1) : P[k] >= t /\ t > P[k + 1]
         IN  RatAdd(Int2Rat(V[i]),
                    RatDiv(RatMul(Int2Rat(V[i + 1] - V[i]), Int2Rat(Ln(P[i]) - Ln(t))),
                           Int2Rat(Ln(P[i]) - Ln(P[i + 1]))))

\* row s of tmp_grid[key] is vertical_interpolate of the station's observed
\* pressures and its samples of key, on the standard grid
IsInterpolatedColumn(s, key) ==
    LET P   == StationSamples(s, "pressure")
        V   == StationSamples(s, key)
        col == vertical_interpolate(P, V, vertical_levels)
    IN  /\ col.raised = "none"
        /\ tmp_grid[key][s] = col.value
        /\ \A j \in 1..Len(vertical_levels) :
               tmp_grid[key][s][j] = ProfileAt(P, V, vertical_levels[j])

\* the rows <<key position, station position>> of tmp_grid to look at: the
\* row the loop has just filled while step 1 runs, every row when it is over
\* (no later statement writes tmp_grid)
RowsToCheck ==
    IF pc = "interp"
    THEN IF loc >= 2 THEN {<<key_i, loc - 1>>}
         ELSE IF loc = 0 /\ key_i >= 2 THEN {<<key_i - 1, nstns>>}
         ELSE {}
    ELSE IF pc = "distance"
    THEN {<<ki, s>> : ki \in 1..Len(keys), s \in 1..nstns}
    ELSE {}

\* C14 as stated: for every station and every variable, pressure included,
\* the station's column is the result of vertical_interpolate on the
\* station's observed pressures and the variable's samples.
C14_EveryColumnInterpolated ==
    \A r \in RowsToCheck : IsInterpolatedColumn(r[2], keys[r[1]])

\* C14 amended: for every station and every key other than pressure the
\* column is the result of vertical_interpolate on the station's observed
\* pressures and that key's samples; the pressure column is the standard
\* grid itself, not an interpolation of the observed pressures.
C14_ColumnsInterpolatedButPressure ==
    \A r \in RowsToCheck :
        IF keys[r[1]] = "pressure"
        THEN tmp_grid[keys[r[1]]][r[2]] = AsFloat(vertical_levels)
        ELSE IsInterpolatedColumn(r[2], keys[r[1]])

C14_Witness ==
    /\ pc = "distance"
    /\ Len(stns) = 3
    /\ stns[1] # stns[2] /\ stns[2] # stns[3]
    /\ Len(vertical_levels) >= 3
    /\ \E j \in 2..Len(vertical_levels) :
           /\ tmp_grid["temperature"][2][j] # tmp_grid["temperature"][2][1]
           /\ tmp_grid["temperature"][2][j] # tmp_grid["temperature"][1][j]
    /\ \A s \in 1..3 : ~IsInterpolatedColumn(s, "pressure")

\* ------------------------------------------------------------------------
\* Two calls in a row
\* ------------------------------------------------------------------------
SecondReturned(v) == pc = "returned" /\ call_no = 2 /\ variant = v

\* C15: a second call with the same stations, tables and grid parameters
\* returns the same values as the first: nothing the first call left behind
\* (the memory its arrays were in, in particular) shows in the second result.
C15_Deterministic ==
    SecondReturned("same") => cross_section = first_result

C15_Witness ==
    /\ SecondReturned("same")
    /\ allocator_left # "uninit"
    /\ Len(stns) = 2
    /\ Len(vertical_levels) >= 3
    /\ cross_section.obs_distance[1] # cross_section.obs_distance[2]
    /\ first_result.grid_data["temperature"][1][1].kind = "obs"

\* ------------------------------------------------------------------------
\* Frame
\* ------------------------------------------------------------------------
\* the arrays handed to vertical_interpolate
VI_InputBases == {"vcoord_data", "interp_var", "interp_levels"}

Interpolated2D(ki) ==
    griddata(flatten(ddist), flatten(pdist), flatten(tmp_grid[keys[ki]]), xx, pp)

IsNaN(cell) == cell.kind = "nan"

\* C17: every cell of the grid written last is the cell griddata returned at
\* that mesh point, a NaN cell included, and a call whose interpolations
\* have all returned returns.
C17_GridIsInterpolationOutput ==
    (pc \in {"griddata", "returned"} /\ grid_i >= 2) =>
        LET out == Interpolated2D(grid_i - 1)
        IN  /\ out.raised = "none"
            /\ \A i \in 1..nx : \A j \in 1..plevs :
                   /\ grid[keys[grid_i - 1]][i][j] = out.value[i][j]
                   /\ IsNaN(out.value[i][j]) <=> IsNaN(grid[keys[grid_i - 1]][i][j])

\* a NaN cell in a returned grid
C17_NaNReturned ==
    /\ Returned
    /\ \E k \in DOMAIN cross_section.grid_data :
           \E i \in 1..nx : \E j \in 1..plevs : IsNaN(cross_section.grid_data[k][i][j])

\* the pressure of the standard atmosphere at the elevation of the station at
\* position i of the path, from the given tables
ElevationPressure(tables, i) == StdAtmosphere[tables[stns[i]].values["elevation"][1]]

\* C18: a second call whose tables differ from the first call's in the
\* station elevations only returns the same grid_data, obs_distance, x_grid
\* and p_grid; the ground-elevation entry holds one pressure per station in
\* station order, that of the station's elevation in the call's own tables.
C18_ElevationDoesNotInterfere ==
    /\ SecondReturned("elevation") =>
           /\ cross_section.grid_data = first_result.grid_data
           /\ cross_section.obs_distance = first_result.obs_distance
           /\ cross_section.x_grid = first_result.x_grid
           /\ cross_section.p_grid = first_result.p_grid
           /\ Len(first_result.elevation) = Len(stns)
           /\ \A i \in 1..Len(stns) :
                  first_result.elevation[i] = ElevationPressure(df, i)
    /\ Returned =>
           /\ Len(cross_section.elevation) = Len(stns)
           /\ \A i \in 1..Len(stns) :
                  cross_section.elevation[i] = ElevationPressure(data, i)

C18_Witness ==
    /\ SecondReturned("elevation")
    /\ Len(stns) = 2
    /\ stns[1] # stns[2]
    /\ \A i \in 1..2 : cross_section.elevation[i] # first_result.elevation[i]
    /\ cross_section.elevation[1] # cross_section.elevation[2]
    /\ cross_section.grid_data = first_result.grid_data

\* the station columns of the key at position ki at level j, for two stations
ColumnValues(ki, j) == {tmp_grid[keys[ki]][s][j] : s \in 1..2}

\* C19: with exactly two stations, each station's own distance is a sample of
\* the horizontal axis, and the grid value there, for every variable and at
\* every level, lies between the two stations' column values at that level
\* (it is the station's own column value).
C19_TwoStationRoundTrip ==
    (Returned /\ nstns = 2) =>
        \A s \in 1..2 :
            \E i \in 1..nx :
                /\ x[i] = dist[s]
                /\ \A ki \in 1..Len(keys) : \A j \in 1..plevs :
                       LET cell == cross_section.grid_data[keys[ki]][i][j]
                       IN  /\ cell.kind = "obs"
                           /\ RatBetween(cell.v, tmp_grid[keys[ki]][1][j],
                                                 tmp_grid[keys[ki]][2][j])
                           /\ cell.v = tmp_grid[keys[ki]][s][j]

C19_Witness ==
    /\ Returned /\ nstns = 2
    /\ plevs >= 3
    /\ \E j \in 1..plevs :
           /\ tmp_grid["temperature"][1][j] # tmp_grid["temperature"][2][j]
           /\ cross_section.grid_data["temperature"][1][j].v = tmp_grid["temperature"][1][j]
           /\ cross_section.grid_data["temperature"][nx][j].v = tmp_grid["temperature"][2][j]

\* ------------------------------------------------------------------------
\* Order of the stages
\* ------------------------------------------------------------------------
\* the 2D interpolation stage has been entered
GridStage == pc = "griddata" \/ griddata_calls > 0

\* the number of keys that are interpolated vertically: the keys taken from
\* the first station's table, pressure left out
InterpolatedKeys ==
    Cardinality({i \in 1..Min(KeysTaken, Len(data[stns[1]].columns)) :
                     data[stns[1]].columns[i] # "pressure"})

\* C20 as stated: vertical_interpolate is called once per station, and all
\* these calls are over before the first call of griddata.
C20_OneCallPerStation ==
    GridStage => \A s \in 1..Len(stns) : vi_calls[s] = 1

\* C20 amended: vertical_interpolate is called once per station for each key
\* other than pressure (seven times per station with the eight keys taken),
\* and all these calls are over before the first call of griddata: no call
\* of griddata has started while a call of vertical_interpolate is still to
\* come, and none is made once the 2D stage has been entered.
C20_InterpolationBeforeGridding ==
    Len(stns) >= 1 =>
        /\ \A s \in 1..Len(stns) : vi_calls[s] <= InterpolatedKeys
        /\ (\E s \in 1..Len(stns) : vi_calls[s] < InterpolatedKeys) => griddata_calls = 0
        /\ GridStage => \A s \in 1..Len(stns) : vi_calls[s] = InterpolatedKeys
        /\ griddata_calls <= KeysTaken

C20_Witness ==
    /\ griddata_calls = 1
    /\ Len(stns) = 3
    /\ \A s \in 1..3 : vi_calls[s] = KeysTaken - 1

\* ------------------------------------------------------------------------
\* The keys of the grids
\* ------------------------------------------------------------------------
VariablesOfInterest == {"pressure", "temperature", "dewpoint", "u_wind", "v_wind"}

\* the first columns of the first station's table, as many as are taken
FirstColumns ==
    {data[stns[1]].columns[i] : i \in 1..Min(KeysTaken, Len(data[stns[1]].columns))}

\* C21 as stated: the variables of grid_data are exactly pressure,
\* temperature, dewpoint, u-wind and v-wind, whatever the columns of the tables.
C21_GridsOfFiveVariables ==
    Returned => DOMAIN cross_section.grid_data = VariablesOfInterest

\* C21 amended: the variables of grid_data are exactly the first eight
\* columns of the first station's table, in whatever order the table has
\* them (pressure, height, temperature, dewpoint, direction, speed, u_wind
\* and v_wind for the tables as downloaded).
C21_GridsOfFirstEightColumns ==
    /\ Returned =>
           /\ DOMAIN cross_section.grid_data = FirstColumns
           /\ Cardinality(DOMAIN cross_section.grid_data) = KeysTaken
    /\ (Returned /\ data[stns[1]].columns = Columns) =>
           DOMAIN cross_section.grid_data =
               VariablesOfInterest \cup {"height", "direction", "speed"}

C21_Witness ==
    /\ Returned
    /\ data[stns[1]].columns = Columns
    /\ Len(stns) = 3
    /\ "height" \in DOMAIN cross_section.grid_data
    /\ "latitude" \notin DOMAIN cross_section.grid_data
    /\ cross_section.grid_data["height"][1][1].kind = "obs"

\* ------------------------------------------------------------------------
\* Independence of the station columns
\* ------------------------------------------------------------------------
\* C22: the columns of a station depend on that station's own profile and on
\* the grid only: a second call in which the profile of the first station of
\* the path is another one builds the same columns for every other station,
\* and a second call on the stations in reverse order builds the same
\* column for each station, at its new position.
C22_ColumnsIndependent ==
    /\ SecondReturned("profile") =>
           \A k \in DOMAIN tmp_grid : \A i \in 1..nstns :
               stns[i] # stns[1] => tmp_grid[k][i] = first_columns[k][i]
    /\ SecondReturned("reversed") =>
           \A k \in DOMAIN tmp_grid : \A i \in 1..nstns :
               tmp_grid[k][i] = first_columns[k][nstns + 1 - i]

C22_Witness ==
    /\ SecondReturned("profile")
    /\ Len(stns) = 2
    /\ stns[1] # stns[2]
    /\ \E j \in 1..plevs :
           /\ tmp_grid["temperature"][1][j] # first_columns["temperature"][1][j]
           /\ tmp_grid["temperature"][2][j] # tmp_grid["temperature"][1][j]
    /\ tmp_grid["temperature"][2] = first_columns["temperature"][2]

\* ------------------------------------------------------------------------
\* Alignment of the scattered points and of the mesh
\* ------------------------------------------------------------------------
\* the arguments griddata is called with for key k (lines 203-204)
ScatteredX == flatten(ddist)

ScatteredY == flatten(pdist)

ScatteredValues(k) == flatten(tmp_grid[k])

\* C23: in the scattered points handed to griddata, the point of station s
\* and level j has the coordinates (obs_distance[s], vertical_levels[j]) and
\* the value of station s at level j; every row i of x_grid holds the i-th
\* horizontal sample and every row of p_grid holds the vertical levels.
C23_ScatteredPointsAligned ==
    pc = "griddata" =>
        /\ Len(ScatteredX) = nstns * plevs
        /\ Len(ScatteredY) = nstns * plevs
        /\ \A s \in 1..nstns : \A j \in 1..plevs :
               LET n == (s - 1) * plevs + j
               IN  /\ ScatteredX[n] = dist[s]
                   /\ ScatteredY[n] = vertical_levels[j]
                   /\ \A k \in DOMAIN tmp_grid :
                          /\ Len(ScatteredValues(k)) = nstns * plevs
                          /\ ScatteredValues(k)[n] = tmp_grid[k][s][j]
        /\ Len(xx) = nx /\ Len(pp) = nx
        /\ \A i \in 1..nx :
               /\ Len(xx[i]) = plevs /\ Len(pp[i]) = plevs
               /\ \A j \in 1..plevs : xx[i][j] = x[i] /\ pp[i][j] = vertical_levels[j]

C23_Witness ==
    /\ pc = "griddata"
    /\ griddata_calls >= 1
    /\ nstns = 3 /\ plevs >= 2
    /\ dist[2] # dist[1] /\ dist[3] # dist[2]
    /\ tmp_grid["temperature"][1] # tmp_grid["temperature"][2]
    /\ xx[2][1] # xx[1][1]

\* ------------------------------------------------------------------------
\* The station coordinates and the position of the pressure column
\* ------------------------------------------------------------------------
\* the loop over the keys is over
KeysLoopDone == pc \in {"distance", "elevation", "mesh", "griddata", "returned"}

PressureAmongKeys == \E i \in 1..Len(keys) : keys[i] = "pressure"

\* the first entry of column c of each station's table, in station order
FirstEntries(c) == [i \in 1..nstns |-> data[stns[i]].values[c][1]]

\* C24: once the loop over the keys is over, the latitude, longitude and
\* elevation lists hold one entry per station, in station order, when
\* 'pressure' is among the keys, at whatever position; when it is not, the
\* lists are empty and the call gets no further than the distance
\* computation.
C24_CoordinateLists ==
    KeysLoopDone =>
        IF PressureAmongKeys
        THEN /\ lats = FirstEntries("latitude")
             /\ lons = FirstEntries("longitude")
             /\ elev = FirstEntries("elevation")
        ELSE /\ lats = << >> /\ lons = << >> /\ elev = << >>
             /\ pc = "distance"

\* pressure is the third key and the coordinates of two different stations
\* have been gathered
C24_Witness ==
    /\ pc = "elevation"
    /\ keys[3] = "pressure"
    /\ nstns = 2
    /\ lons[1] # lons[2]
    /\ elev[1] # elev[2]

\* pressure is not among the keys and the distance computation has failed
C24_WitnessFailure ==
    /\ pc = "raised" /\ raised = "IndexError"
    /\ nstns = 2
    /\ ~PressureAmongKeys
    /\ lons = << >>

\* ------------------------------------------------------------------------
\* Properties of find_time_var (checked under SpecFTV)
\* ------------------------------------------------------------------------
\* positions a..b of s hold a name: a maximal run of characters that are
\* not whitespace
IsNameAt(s, a, b) ==
    /\ 1 <= a /\ a <= b /\ b <= Len(s)
    /\ \A k \in a..b : s[k] \notin Whitespace
    /\ a = 1 \/ s[a - 1] \in Whitespace
    /\ b = Len(s) \/ s[b + 1] \in Whitespace

\* the name at positions a..b of the coordinates string starts with time_basename
MatchAt(a, b) ==
    /\ IsNameAt(coordinates, a, b)
    /\ Len(time_basename) <= b - a + 1
    /\ \A k \in 1..Len(time_basename) : coordinates[a + k - 1] = time_basename[k]

SomeNameMatches == \E a, b \in 1..Len(coordinates) : MatchAt(a, b)

\* C25: the name find_time_var returns is the first name of the coordinates
\* string that starts with time_basename: it stands at some place of the
\* string, it matches, and no name standing before it matches.
C25_ReturnsFirstMatch ==
    ftv_pc = "returned" =>
        \E a, b \in 1..Len(coordinates) :
            /\ MatchAt(a, b)
            /\ ftv_result = SubSeq(coordinates, a, b)
            /\ \A a2, b2 \in 1..(a - 1) : ~MatchAt(a2, b2)

\* a name that does not match is passed over and a later of two matching
\* names is left out
C25_Witness ==
    /\ ftv_pc = "returned"
    /\ coordinates = <<"x", " ", "t", "\t">>
    /\ time_basename = <<"t">>
    /\ ftv_result = <<"t">>

C25_WitnessTwoMatches ==
    /\ ftv_pc = "returned"
    /\ coordinates = <<"t", "i", " ", "t">>
    /\ time_basename = <<"t">>
    /\ ftv_result = <<"t", "i">>

\* C26: find_time_var ends with ValueError exactly when no name of the
\* coordinates string starts with time_basename, the empty string included,
\* and a name it returns starts with time_basename.
C26_ValueErrorIffNoMatch ==
    /\ ftv_pc \in {"returned", "ValueError"} =>
           (ftv_pc = "ValueError" <=> ~SomeNameMatches)
    /\ ftv_pc = "returned" =>
           /\ Len(time_basename) <= Len(ftv_result)
           /\ \A k \in 1..Len(time_basename) : ftv_result[k] = time_basename[k]

\* a string with names, none of which starts with the basename although one
\* ends with it
C26_Witness ==
    /\ ftv_pc = "ValueError"
    /\ coordinates = <<"x", "t", " ", "i">>
    /\ time_basename = <<"t">>

C26_WitnessEmpty ==
    /\ ftv_pc = "ValueError"
    /\ coordinates = << >>
    /\ time_basename = << >>

\* ------------------------------------------------------------------------
\* Properties of contrast_correction (checked under SpecCC)
\* ------------------------------------------------------------------------
InUnitRange(a) ==
    /\ a.kind = "num"
    /\ RatLeq(Int2Rat(0), a.v)
    /\ RatLeq(a.v, Int2Rat(1))

C27_WitnessUndefined == cc_pc = "ZeroDivisionError" /\ contrast = 66045

\* ------------------------------------------------------------------------
\* The boundary masks on strictly decreasing profiles (checked under SpecVI)
\* ------------------------------------------------------------------------
\* the targets the masks of lines 96-97 select
MaskLow == {i \in 1..Len(interp_levels) : interp_levels[i] > vcoord_data[1]}

MaskHigh == {i \in 1..Len(interp_levels) : interp_levels[i] < vcoord_data[Len(vcoord_data)]}

\* C28: when the observed pressures are strictly decreasing, the two masks
\* select no common target level and the mask assignments leave the array
\* as the one-dimensional interpolation made it.
C28_MasksRedundant ==
    [][ (vi_pc = "mask" /\ StrictlyDecreasing(vcoord_data)) =>
            /\ MaskLow \cap MaskHigh = {}
            /\ interp_data' = interp_data ]_vars

\* a profile of different values with targets on both sides of it
C28_Witness ==
    /\ vi_pc = "return"
    /\ Len(vcoord_data) >= 2
    /\ StrictlyDecreasing(vcoord_data)
    /\ MaskLow # {} /\ MaskHigh # {}
    /\ interp_var[1] # interp_var[Len(interp_var)]
    /\ \E i \in MaskLow : interp_data[i] = Int2Rat(interp_var[1])
    /\ \E i \in MaskHigh : interp_data[i] = Int2Rat(interp_var[Len(interp_var)])

\* ------------------------------------------------------------------------
\* The mesh and the stations on the horizontal axis
\* ------------------------------------------------------------------------
Distances == {dist[s] : s \in 1..Len(dist)}

\* the mesh has just been set up, or the call has returned it
MeshSet == (pc = "griddata" /\ grid_i = 1) \/ pc = "returned"

\* C29: every mesh point lies in the bounding rectangle of the scattered
\* points: its distance between the smallest and the largest station
\* distance, its pressure between the last level of the grid, which is not
\* below end, and start.
C29_MeshInsideRectangle ==
    MeshSet =>
        \A i \in 1..nx : \A j \in 1..plevs :
            /\ RatLeq(SetMin(Distances), xx[i][j])
            /\ RatLeq(xx[i][j], SetMax(Distances))
            /\ vertical_levels[plevs] <= pp[i][j]
            /\ end <= pp[i][j]
            /\ pp[i][j] <= start

\* a returned mesh whose axis ends before the farthest station
C29_Witness ==
    /\ pc = "returned"
    /\ nstns = 3 /\ plevs >= 2
    /\ RatLess(dist[3], dist[2])
    /\ cross_section.x_grid[nx][1] = dist[3]
    /\ cross_section.p_grid[1][plevs] = vertical_levels[plevs]
    /\ vertical_levels[plevs] > end

\* C30 as stated: every station's distance lies between the first and the
\* last entry of obs_distance, the ends of the horizontal axis.
C30_StationsWithinAxis ==
    pc = "returned" =>
        \A s \in 1..nstns :
            /\ RatLeq(cross_section.obs_distance[1], cross_section.obs_distance[s])
            /\ RatLeq(cross_section.obs_distance[s], cross_section.obs_distance[nstns])

\* the stations that are farther from the first station than the last one is
BeyondAxis == {s \in 1..nstns : RatLess(dist[nstns], dist[s])}

\* C30: no station's distance is below obs_distance[0], the start of the
\* horizontal axis; the stations farther from the first station than the
\* last one is lie beyond the end of the axis, and every other station is
\* within it.
C30_StationsFromAxisStart ==
    pc = "returned" =>
        /\ x[1] = cross_section.obs_distance[1]
        /\ x[nx] = cross_section.obs_distance[nstns]
        /\ \A s \in 1..nstns :
               /\ RatLeq(x[1], cross_section.obs_distance[s])
               /\ (s \notin BeyondAxis) <=> RatLeq(cross_section.obs_distance[s], x[nx])

\* a returned cross-section with a station beyond the end of the axis
C30_Witness ==
    /\ pc = "returned"
    /\ stns = <<"DNR", "OAX", "LBF">>
    /\ BeyondAxis = {2}
    /\ RatLess(x[nx], cross_section.obs_distance[2])

====
